---- MODULE Spec2Model ----
(***************************************************************************)
(* Model of the image-metadata pipeline: crawl.py (metadata crawl and      *)
(* resumable image download) and analyze.py (cleaning and feature          *)
(* engineering of the metadata table).                                     *)
(***************************************************************************)
EXTENDS Integers, Sequences, FiniteSets, TLC

VARIABLES
    \* ---- crawl.py ----
    pc,          \* position of the crawl.py process: idle, crawl, fetch, writing
    run,         \* number of runs of main() started so far
    fetches,     \* number of calls of fetch_images so far
    ended,       \* how each finished run ended: "returned" or "killed"
    per_page,    \* args.per_page of the run that crawls, 0 otherwise
    num_images,  \* args.num_images of the run that crawls, 0 otherwise
    comb,        \* index into param_combs of the combination being crawled
    page,        \* page number of the next query of that combination
    queries,     \* the requests make_query sent in this run, in order
    response,    \* status code of the last response make_query received
    first_fail,  \* index of this run's first query that got a non-200 response, 0 when none
    metadata,    \* the metadata table held by the running process
    csv,         \* metadata.csv on disk: <<>> when absent, <<table>> when saved
    files,       \* the image directory: state of {ID}.jpg for each ID
    files0,      \* the image directory as fetch_images of this run found it
    row,         \* index of the row the fetch_images loop is at
    calls,       \* the requests of fetch_image in this run: URL and status code
    \* ---- analyze.py ----
    apc,         \* position of the analyze.py process: reading, cleaned, done, error
    raw,         \* the table read from the raw metadata CSV
    df,          \* the DataFrame main() passes to clean and then to preprocess
    log,         \* the lines clean has written to the log
    derived      \* the DataFrame preprocess returned

crawlVars == <<pc, run, fetches, ended, per_page, num_images, comb, page, queries,
               response, first_fail, metadata, csv, files, files0, row, calls>>

analyzeVars == <<apc, raw, df, log, derived>>

vars == <<crawlVars, analyzeVars>>

\* ------------------------------------------------------------------ bounds
MaxPerPage == 2      \* per_page is drawn from 2..MaxPerPage
MaxNumImages == 5    \* num_images is drawn from 0..MaxNumImages
MaxId == 2           \* image ids the remote API answers with: 1..MaxId
MaxTable == 2        \* rows of a metadata table: the API stops returning hits there
MaxRuns == 2         \* runs of main() against the same save_dir
MaxRows == 2         \* rows of a raw table, the tables named below apart

IDs == 1..MaxId

\* ------------------------------------------------------------ crawl.py data
BASE_URL == "https://pixabay.com/api/"

CONTENT_TYPES == <<"authentic", "ai">>

IMAGE_TYPES == <<"photo", "illustration">>

ORDERS == <<"popular">>

CATEGORIES == <<"Unknown">>

COLORS == <<"Unknown">>

EDITOR_CHOICES == <<"Unknown">>

\* itertools.product of the six tuples, rightmost varying fastest
param_combs ==
    LET n2 == Len(IMAGE_TYPES)
    IN  [k \in 1..(Len(CONTENT_TYPES) * n2) |->
            [content_type |-> CONTENT_TYPES[((k - 1) \div n2) + 1],
             image_type |-> IMAGE_TYPES[((k - 1) % n2) + 1],
             category |-> CATEGORIES[1],
             colors |-> COLORS[1],
             editors_choice |-> EDITOR_CHOICES[1],
             order |-> ORDERS[1]]]

\* range(1, num_images // per_page + 1) has this many pages
NumPagesCeil(num, per) == (num + per - 1) \div per

NumPages(num, per) == num \div per

\* the request make_query sends for params: the URL depends on content_type
Request(params) ==
    [url |-> IF params.content_type = "authentic"
                THEN BASE_URL
                ELSE "https://pixabay.com/api/?q=ai_generated",
     params |-> params]

\* what make_query returns for a response: the hits of a 200, [] otherwise
make_query_unchecked(resp) == resp.hits

make_query(resp) == IF resp.status_code = 200 THEN resp.hits ELSE <<>>

\* one table row per hit, in the order of the hits
RowOf(image, c) ==
    [ID |-> image.id,
     Content_Type |-> c.content_type,
     Image_Type |-> image.type,
     Category |-> c.category,
     Colors |-> c.colors,
     Editor_Choice |-> c.editors_choice,
     Order |-> c.order,
     URL |-> image.largeImageURL]

AppendHits(table, hits, c) ==
    table \o [i \in 1..Len(hits) |-> RowOf(hits[i], c)]

\* ------------------------------------------------------------ environment
\* sequences over S of length at most n
SeqsUpTo(S, n) == UNION {[1..k -> S] : k \in 0..n}

Min(a, b) == IF a < b THEN a ELSE b

\* a hit of the remote API: the image's URL is identified by its id
Hit(i, image_type) == [id |-> i, type |-> image_type, largeImageURL |-> i]

\* the responses the remote API can give to a page query; the body of an
\* error response may hold anything, hits included
Responses(params, room) ==
    {[status_code |-> s,
      hits |-> [k \in 1..Len(h) |-> Hit(h[k], params.image_type)]] :
        s \in {200, 429}, h \in SeqsUpTo(IDs, Min(params.per_page, room))}

\* os.path.exists(filepath): a truncated file exists too
ExistsNever(fs, id) == FALSE

ExistsComplete(fs, id) == fs[id] = "complete"

Exists(fs, id) == fs[id] # "absent"

\* fetch_image up to the open(filepath, "wb"): a 200 creates the file, whose
\* content is still to be written; anything else leaves the directory alone

fetch_image(status_code, id, fs) ==
    IF status_code = 200 THEN [fs EXCEPT ![id] = "partial"] ELSE fs

\* the status codes the asset server answers with
StatusCodes == {200, 404}

\* the tables a metadata.csv written by an earlier crawl may hold
SavedTables ==
    {[k \in 1..Len(h) |-> RowOf(Hit(h[k], IMAGE_TYPES[1]), param_combs[1])] :
        h \in SeqsUpTo(IDs, MaxTable)}

\* --------------------------------------------------------- crawl.py process
AnalyzeIdle ==
    /\ apc = "off"
    /\ raw = <<>>
    /\ df = <<>>
    /\ log = <<>>
    /\ derived = <<>>

CrawlStart ==
    /\ pc = "idle"
    /\ run = 0
    /\ fetches = 0
    /\ ended = <<>>
    /\ per_page = 0
    /\ num_images = 0
    /\ comb = 1
    /\ page = 1
    /\ queries = <<>>
    /\ response = 0
    /\ first_fail = 0
    /\ metadata = <<>>
    /\ csv \in {<<>>} \cup {<<t>> : t \in SavedTables}
    /\ files = [id \in IDs |-> "absent"]
    /\ files0 = files
    /\ row = 1
    /\ calls = <<>>

\* main() -> build_dataset: read metadata.csv when it exists and enter
\* fetch_images, otherwise call fetch_metadata with the run's arguments
StartRun ==
    /\ UNCHANGED analyzeVars
    /\ pc = "idle"
    /\ run < MaxRuns
    /\ run' = run + 1
    /\ calls' = <<>>
    /\ row' = 1
    /\ files0' = files
    /\ first_fail' = 0
    /\ IF csv # <<>>
          THEN /\ metadata' = csv[1]
               /\ pc' = "fetch"
               /\ fetches' = fetches + 1
               /\ UNCHANGED <<per_page, num_images>>
          ELSE /\ metadata' = <<>>
               /\ pc' = "crawl"
               /\ fetches' = fetches
               /\ per_page' \in 2..MaxPerPage
               /\ num_images' \in 0..MaxNumImages
    /\ UNCHANGED <<ended, comb, page, queries, response, csv, files>>

\* one iteration of the page loop of fetch_metadata: one make_query call and
\* the rows of its hits
CrawlQuery ==
    /\ UNCHANGED analyzeVars
    /\ pc = "crawl"
    /\ comb <= Len(param_combs)
    /\ page <= NumPages(num_images, per_page)
    /\ LET c == param_combs[comb]
           params == [key |-> "YOUR-API-KEY", per_page |-> per_page,
                      content_type |-> c.content_type,
                      image_type |-> c.image_type, page |-> page]
       IN  \E resp \in Responses(params, MaxTable - Len(metadata)) :
              /\ queries' = Append(queries, Request(params))
              /\ response' = resp.status_code
              /\ first_fail' = IF first_fail = 0 /\ resp.status_code # 200
                                  THEN Len(queries) + 1
                                  ELSE first_fail
              /\ metadata' = AppendHits(metadata, make_query(resp), c)
    /\ page' = IF page < NumPages(num_images, per_page) THEN page + 1 ELSE 1
    /\ comb' = IF page < NumPages(num_images, per_page) THEN comb ELSE comb + 1
    /\ UNCHANGED <<pc, run, fetches, ended, per_page, num_images, csv, files, files0,
                   row, calls>>

\* the loops of fetch_metadata are over: it returns the table
CrawlReturn ==
    /\ UNCHANGED analyzeVars
    /\ pc = "crawl"
    /\ \/ NumPages(num_images, per_page) < 1
       \/ comb > Len(param_combs)
    /\ pc' = "crawled"
    /\ UNCHANGED <<run, fetches, ended, per_page, num_images, comb, page, queries,
                   response, first_fail, metadata, csv, files, files0, row,
                   calls>>

\* build_dataset saves the table and enters fetch_images; the locals of
\* fetch_metadata are gone
Save ==
    /\ UNCHANGED analyzeVars
    /\ pc = "crawled"
    /\ csv' = <<metadata>>
    /\ pc' = "fetch"
    /\ fetches' = fetches + 1
    /\ row' = 1
    /\ files0' = files
    /\ per_page' = 0
    /\ num_images' = 0
    /\ comb' = 1
    /\ page' = 1
    /\ queries' = <<>>
    /\ response' = 0
    /\ UNCHANGED <<run, ended, first_fail, metadata, files, calls>>

\* fetch_images, a row whose file exists: nothing is requested
FetchSkip ==
    /\ UNCHANGED analyzeVars
    /\ pc = "fetch"
    /\ row <= Len(metadata)
    /\ Exists(files, metadata[row].ID)
    /\ row' = row + 1
    /\ UNCHANGED <<pc, run, fetches, ended, per_page, num_images, comb, page, queries,
                   response, first_fail, metadata, csv, files, files0, calls>>

\* fetch_images, a row whose file does not exist: fetch_image requests the
\* URL; a 200 opens the file for writing, anything else prints Fail
FetchRequest ==
    /\ UNCHANGED analyzeVars
    /\ pc = "fetch"
    /\ row <= Len(metadata)
    /\ ~Exists(files, metadata[row].ID)
    /\ \E status_code \in StatusCodes :
          /\ calls' = Append(calls, [url |-> metadata[row].URL,
                                     status_code |-> status_code])
          /\ files' = fetch_image(status_code, metadata[row].ID, files)
          /\ pc' = IF files' # files THEN "writing" ELSE "fetch"
          /\ row' = IF files' # files THEN row ELSE row + 1
    /\ UNCHANGED <<run, fetches, ended, per_page, num_images, comb, page, queries,
                   response, first_fail, metadata, csv, files0>>

\* fetch_image, the chunks of the response are written and the file closed
FetchWrite ==
    /\ UNCHANGED analyzeVars
    /\ pc = "writing"
    /\ files' = [files EXCEPT ![metadata[row].ID] = "complete"]
    /\ pc' = "fetch"
    /\ row' = row + 1
    /\ UNCHANGED <<run, fetches, ended, per_page, num_images, comb, page, queries,
                   response, first_fail, metadata, csv, files0, calls>>

\* fetch_images has gone through every row: main() returns
FetchReturn ==
    /\ UNCHANGED analyzeVars
    /\ pc = "fetch"
    /\ row > Len(metadata)
    /\ pc' = "idle"
    /\ ended' = Append(ended, "returned")
    /\ UNCHANGED <<run, fetches, per_page, num_images, comb, page, queries, response,
                   first_fail, metadata, csv, files, files0, row, calls>>

\* the process is killed: its memory is gone, what is on disk stays as it is
Kill ==
    /\ UNCHANGED analyzeVars
    /\ pc # "idle"
    /\ pc' = "idle"
    /\ ended' = Append(ended, "killed")
    /\ metadata' = <<>>
    /\ row' = 1
    /\ per_page' = 0
    /\ num_images' = 0
    /\ comb' = 1
    /\ page' = 1
    /\ queries' = <<>>
    /\ response' = 0
    /\ first_fail' = 0
    /\ UNCHANGED <<run, fetches, csv, files, files0, calls>>

CrawlNext ==
    \/ StartRun
    \/ CrawlQuery
    \/ CrawlReturn
    \/ Save
    \/ FetchSkip
    \/ FetchRequest
    \/ FetchWrite
    \/ FetchReturn
    \/ Kill

CrawlInit == CrawlStart /\ AnalyzeIdle

SpecCrawl == CrawlInit /\ [][CrawlNext]_vars

\* ------------------------------------------------------------ analyze.py
\* A cell of a DataFrame: a string (its characters), a number n/d in lowest
\* terms, the missing value NaN, or inf.
Str(chars) == [k |-> "str", s |-> chars, n |-> 0, d |-> 1]

Num(x) == [k |-> "num", s |-> <<>>, n |-> x, d |-> 1]

NaN == [k |-> "nan", s |-> <<>>, n |-> 0, d |-> 1]

Inf == [k |-> "inf", s |-> <<>>, n |-> 0, d |-> 1]

RECURSIVE GCD(_, _)
GCD(a, b) == IF b = 0 THEN a ELSE GCD(b, a % b)

\* the number n/d (n >= 0, d > 0) in lowest terms
Rat(n, d) ==
    LET g == GCD(n, d)
    IN  [k |-> "num", s |-> <<>>, n |-> n \div g, d |-> d \div g]

\* the strings of the tables
authentic == <<"a", "u", "t", "h", "e", "n", "t", "i", "c">>

ai == <<"a", "i">>

Unknown == <<"U", "n", "k", "n", "o", "w", "n">>

popular == <<"p", "o", "p", "u", "l", "a", "r">>

photo == <<"p", "h", "o", "t", "o">>

illustration == <<"i", "l", "l", "u", "s", "t", "r", "a", "t", "i", "o", "n">>

vector_ai == <<"v", "e", "c", "t", "o", "r", "/", "a", "i">>

tags_nature == <<"n", "a", "t", "u", "r", "e">>

tags_ai_generated == <<"a", "i", " ", "g", "e", "n", "e", "r", "a", "t", "e", "d">>

tags_AI_Generated == <<"A", "I", " ", "G", "e", "n", "e", "r", "a", "t", "e", "d">>

tags_ai_generated_art == <<"t", "h", "i", "s", " ", "i", "s", " ", "a", "i", "-", "g", "e", "n", "e", "r", "a", "t", "e", "d", " ", "a", "r", "t">>

CATEGORICAL_COLS_without_Content_Type ==
    <<"Image_Type", "Category", "Colors", "Editor_Choice", "Order">>

CATEGORICAL_COLS ==
    <<"Content_Type", "Image_Type", "Category", "Colors", "Editor_Choice", "Order">>

RAW_NUMERICAL_COLS == <<"Views", "Likes", "Downloads", "Comments">>

DERIVED_NUMERICAL_COLS ==
    <<"Likes_Per_View", "Downloads_Per_View", "Comments_Per_View">>

NUMERICAL_COLS == RAW_NUMERICAL_COLS \o DERIVED_NUMERICAL_COLS

\* the alternatives of the regular expression ai_tags_pattern
ai_tags_pattern ==
    <<<<"a", "i", " ", "g", "e", "n", "e", "r", "a", "t", "e", "d">>,
      <<"a", "i", "-", "g", "e", "n", "e", "r", "a", "t", "e", "d">>,
      <<"a", "i", "_", "g", "e", "n", "e", "r", "a", "t", "e", "d">>,
      <<"a", "i", "g", "e", "n", "e", "r", "a", "t", "e", "d">>>>

\* re.search of a pattern without metacharacters: some alternative occurs
\* somewhere in the string, character for character
Search(chars, alternatives) ==
    \E a \in 1..Len(alternatives) :
        \E i \in 1..(Len(chars) - Len(alternatives[a]) + 1) :
            SubSeq(chars, i, i + Len(alternatives[a]) - 1) = alternatives[a]

\* Series.str.contains(pat, na=False) for one cell
str_contains(cell, alternatives) ==
    cell.k = "str" /\ Search(cell.s, alternatives)

\* DataFrame.dropna(subset=["ID"])
dropna_ID(t) == SelectSeq(t, LAMBDA r : r.ID # NaN)

\* DataFrame.drop_duplicates(subset=["ID"]): the first row of each ID stays
drop_duplicates_keep_last(t) ==
    LET F[i \in 0..Len(t)] ==
            IF i = 0 THEN <<>>
            ELSE IF \A j \in (i + 1)..Len(t) : t[j].ID # t[i].ID
                    THEN Append(F[i - 1], t[i])
                    ELSE F[i - 1]
    IN  F[Len(t)]

drop_duplicates(t) ==
    LET F[i \in 0..Len(t)] ==
            IF i = 0 THEN <<>>
            ELSE IF \A j \in 1..(i - 1) : t[j].ID # t[i].ID
                    THEN Append(F[i - 1], t[i])
                    ELSE F[i - 1]
    IN  F[Len(t)]

\* the mask of the mis-marked rows, for one row
mis_marked_mask_and(r) ==
    /\ r.Content_Type = Str(authentic)
    /\ str_contains(r.Tags, ai_tags_pattern)
    /\ str_contains(r.Image_Type, <<vector_ai>>)

mis_marked_mask(r) ==
    /\ r.Content_Type = Str(authentic)
    /\ \/ str_contains(r.Tags, ai_tags_pattern)
       \/ str_contains(r.Image_Type, <<vector_ai>>)

\* metadata[mask].index
mis_marked_index(t) == {t[i].idx : i \in {j \in 1..Len(t) : mis_marked_mask(t[j])}}

\* metadata.loc[mis_marked, "Content_Type"] = "ai"
relabel(t, index) ==
    [i \in 1..Len(t) |->
        IF t[i].idx \in index THEN [t[i] EXCEPT !.Content_Type = Str(ai)] ELSE t[i]]

\* DataFrame.fillna({col: value})
fillna_col(t, col, value) ==
    [i \in 1..Len(t) |->
        IF t[i][col] = NaN THEN [t[i] EXCEPT ![col] = value] ELSE t[i]]

\* the loop over CATEGORICAL_COLS
RECURSIVE fill_categorical(_, _)
fill_categorical(t, k) ==
    IF k > Len(CATEGORICAL_COLS) THEN t
    ELSE fill_categorical(fillna_col(t, CATEGORICAL_COLS[k], Str(Unknown)), k + 1)

\* the values of a column that are not missing, in row order
present(t, col) ==
    LET c == [i \in 1..Len(t) |-> t[i][col]]
    IN  SelectSeq(c, LAMBDA x : x # NaN)

\* x < y for two numbers
Less(x, y) == x.n * y.d < y.n * x.d

\* the k-th smallest of the numbers vs
kth(vs, k) ==
    LET S == {vs[i] : i \in 1..Len(vs)}
        below(v) == Cardinality({i \in 1..Len(vs) : Less(vs[i], v)})
        upto(v) == Cardinality({i \in 1..Len(vs) : ~Less(v, vs[i])})
    IN  CHOOSE v \in S : below(v) < k /\ k <= upto(v)

\* Series.median(): NaN when nothing is present, the middle value of an odd
\* count, the mean of the two middle values of an even count
median_low(vs) ==
    IF Len(vs) = 0 THEN NaN ELSE kth(vs, (Len(vs) + 1) \div 2)

median(vs) ==
    IF Len(vs) = 0 THEN NaN
    ELSE IF Len(vs) % 2 = 1 THEN kth(vs, (Len(vs) + 1) \div 2)
    ELSE LET a == kth(vs, Len(vs) \div 2)
             b == kth(vs, Len(vs) \div 2 + 1)
         IN  Rat(a.n * b.d + b.n * a.d, 2 * a.d * b.d)

\* the loop over RAW_NUMERICAL_COLS
RECURSIVE fill_numerical(_, _)
fill_numerical(t, k) ==
    IF k > Len(RAW_NUMERICAL_COLS) THEN t
    ELSE fill_numerical(
            fillna_col(t, RAW_NUMERICAL_COLS[k],
                       median(present(t, RAW_NUMERICAL_COLS[k]))),
            k + 1)

\* a line clean writes to the log: its text and the count it formats
Line(text, count) == [text |-> text, n |-> count]

Rule == Line("============================================================", 0)

\* the lines of one call of clean: total is the row count of the raw table,
\* kept1 after the missing IDs are dropped, kept2 after the duplicates are
report_stale_total(total, kept1, kept2, relabeled) ==
    <<Rule,
      Line("Missing ID", total - kept1),
      Line("Duplication", total - kept2),
      Line("Mis-marked Authentic Images", relabeled),
      Rule,
      Line("", 0)>>

report(total, kept1, kept2, relabeled) ==
    <<Rule,
      Line("Missing ID", total - kept1),
      Line("Duplication", kept1 - kept2),
      Line("Mis-marked Authentic Images", relabeled),
      Rule,
      Line("", 0)>>

\* clean(metadata, log): the table it leaves in metadata (and returns)
clean_table(t) ==
    LET t2 == drop_duplicates(dropna_ID(t))
        t3 == relabel(t2, mis_marked_index(t2))
        t4 == fill_categorical(t3, 1)
        t5 == fillna_col(t4, "Tags", Str(<<>>))
    IN  fill_numerical(t5, 1)

\* clean(metadata, log): what it writes to log
clean_log(t) ==
    LET t1 == dropna_ID(t)
        t2 == drop_duplicates(t1)
    IN  report(Len(t), Len(t1), Len(t2), Cardinality(mis_marked_index(t2)))

\* Series.str.replace("/", "_") for one string
str_replace(chars) ==
    [i \in 1..Len(chars) |-> IF chars[i] = "/" THEN "_" ELSE chars[i]]

\* metadata.loc[mask, "Image_Type"] = metadata["Image_Type"].str.replace("/", "_")
sanitize(t) ==
    [i \in 1..Len(t) |->
        IF str_contains(t[i].Image_Type, << <<"/">> >>)
            THEN [t[i] EXCEPT !.Image_Type = Str(str_replace(@.s))]
            ELSE t[i]]

\* Series / Series for one row: a missing operand gives NaN, 0/0 gives NaN
\* and x/0 with x > 0 gives inf
truediv(a, b) ==
    IF a.k # "num" \/ b.k # "num" THEN NaN
    ELSE IF b.n = 0 THEN (IF a.n = 0 THEN NaN ELSE Inf)
    ELSE Rat(a.n * b.d, a.d * b.n)

\* metadata[derived] = metadata[raw] / metadata["Views"], for the three ratios
ratios(t) ==
    [i \in 1..Len(t) |->
        [c \in DOMAIN t[i] \cup {"Likes_Per_View", "Downloads_Per_View",
                                 "Comments_Per_View"} |->
            CASE c = "Likes_Per_View" -> truediv(t[i].Likes, t[i].Views)
              [] c = "Downloads_Per_View" -> truediv(t[i].Downloads, t[i].Views)
              [] c = "Comments_Per_View" -> truediv(t[i].Comments, t[i].Views)
              [] OTHER -> t[i][c]]]

\* DataFrame.fillna(0): every missing cell of every column
fillna_all(t) ==
    [i \in 1..Len(t) |->
        [c \in DOMAIN t[i] |->
            IF c # "idx" /\ t[i][c] = NaN THEN Num(0) ELSE t[i][c]]]

\* Series.map({"authentic": 0, "ai": 1}) for one cell
map_content_type(cell) ==
    IF cell = Str(authentic) THEN Num(0)
    ELSE IF cell = Str(ai) THEN Num(1)
    ELSE NaN

boolean_content_type(t) ==
    [i \in 1..Len(t) |->
        [c \in DOMAIN t[i] \cup {"Boolean_Content_Type"} |->
            IF c = "Boolean_Content_Type"
                THEN map_content_type(t[i].Content_Type)
                ELSE t[i][c]]]

\* preprocess up to the encoding of Content_Type: all of it is done on the
\* DataFrame the caller passed
preprocess_inplace(t) == boolean_content_type(fillna_all(ratios(sanitize(t))))

\* pd.get_dummies and pd.concat: a new DataFrame with one indicator column
\* per Image_Type of the table, held in the field one_hot
one_hot(t) ==
    LET types == {t[i].Image_Type : i \in 1..Len(t)}
    IN  [i \in 1..Len(t) |->
            [c \in DOMAIN t[i] \cup {"one_hot"} |->
                IF c = "one_hot"
                    THEN [v \in types |-> v = t[i].Image_Type]
                    ELSE t[i][c]]]

RAdd(x, y) == Rat(x.n * y.d + y.n * x.d, x.d * y.d)

RSub(x, y) == Rat(x.n * y.d - y.n * x.d, x.d * y.d)

RMul(x, y) == Rat(x.n * y.n, x.d * y.d)

RECURSIVE RSum(_)
RSum(vs) == IF Len(vs) = 0 THEN Num(0) ELSE RAdd(vs[1], RSum(Tail(vs)))

\* StandardScaler: the mean and the (population) variance of a column; a
\* cell x becomes (x - mean) / sqrt(var), kept as the three numbers
column_mean(vs) == RMul(RSum(vs), Rat(1, Len(vs)))

column_var(vs) ==
    LET n == Len(vs)
        sum == RSum(vs)
        squares == RSum([i \in 1..n |-> RMul(vs[i], vs[i])])
    IN  RMul(RSub(RMul(Num(n), squares), RMul(sum, sum)), Rat(1, n * n))

\* StandardScaler.fit: the statistics of every numerical column
scaler_fit(t) ==
    [c \in {NUMERICAL_COLS[k] : k \in 1..Len(NUMERICAL_COLS)} |->
        LET vs == [i \in 1..Len(t) |-> t[i][c]]
        IN  [mean |-> column_mean(vs), var |-> column_var(vs)]]

\* StandardScaler.transform with the statistics fit
scaler_transform(t, fit) ==
    [i \in 1..Len(t) |->
        [c \in DOMAIN t[i] |->
            IF c \in DOMAIN fit
                THEN [k |-> "z", x |-> t[i][c], mean |-> fit[c].mean,
                      var |-> fit[c].var]
                ELSE t[i][c]]]

standardize(t) ==
    CHOOSE out \in {scaler_transform(t, fit) : fit \in {scaler_fit(t)}} : TRUE

\* StandardScaler.fit_transform raises ValueError on an empty table and on inf
scaler_raises(t) ==
    \/ Len(t) = 0
    \/ \E i \in 1..Len(t), k \in 1..Len(NUMERICAL_COLS) : t[i][NUMERICAL_COLS[k]] = Inf

\* ------------------------------------------------------- analyze.py process
\* a row of a raw table as pd.read_csv gives it: position i under the index
\* label i - 1
RawRow(i, id, content_type, image_type, tags, views, likes) ==
    [idx |-> i - 1,
     ID |-> id,
     Content_Type |-> content_type,
     Image_Type |-> image_type,
     Category |-> Str(Unknown),
     Colors |-> Str(Unknown),
     Editor_Choice |-> Str(Unknown),
     Order |-> Str(popular),
     Tags |-> tags,
     Views |-> views,
     Downloads |-> Num(4),
     Likes |-> likes,
     Comments |-> Num(0),
     URL |-> Str(<<"u">>)]

RawIDs == {NaN, Num(1), Num(2)}

\* the Image_Type and Tags of a row: no sign of AI, the tag in lower case,
\* the tag in capitals, the AI vector type
Signals ==
    {<<Str(photo), NaN>>, <<Str(photo), Str(tags_ai_generated)>>,
     <<Str(photo), Str(tags_AI_Generated)>>, <<Str(vector_ai), NaN>>}

\* rows that differ in the identifier and the labels
LabelRows(i) ==
    {RawRow(i, id, content_type, sig[1], sig[2], Num(10), Num(5)) :
        id \in RawIDs,
        content_type \in {NaN, Str(authentic), Str(ai)},
        sig \in Signals}

\* rows that differ in the identifier and the engagement counters
NumericRows(i) ==
    {RawRow(i, id, Str(authentic), Str(photo), Str(tags_nature), views, likes) :
        id \in RawIDs,
        views \in {NaN, Num(0), Num(10)},
        likes \in {NaN, Num(0), Num(5)}}

\* five rows: one without ID, one duplicate ID, one mis-marked row
FiveRows ==
    <<RawRow(1, NaN, Str(authentic), Str(photo), Str(tags_nature), Num(10), Num(5)),
      RawRow(2, Num(1), Str(authentic), Str(photo), Str(tags_ai_generated_art),
             Num(10), Num(5)),
      RawRow(3, Num(1), Str(ai), Str(photo), Str(tags_nature), Num(20), Num(0)),
      RawRow(4, Num(2), Str(ai), Str(illustration), Str(tags_nature), Num(0), Num(5)),
      RawRow(5, Num(3), Str(authentic), Str(photo), Str(tags_nature), Num(40), NaN)>>

\* four rows with the Views 10, 20, missing, 40 and the Likes 5, missing, 0,
\* missing
FourViews ==
    <<RawRow(1, Num(1), Str(authentic), Str(photo), Str(tags_nature), Num(10), Num(5)),
      RawRow(2, Num(2), Str(authentic), Str(photo), Str(tags_nature), Num(20), NaN),
      RawRow(3, Num(3), Str(ai), Str(photo), Str(tags_nature), NaN, Num(0)),
      RawRow(4, Num(4), Str(ai), Str(photo), Str(tags_nature), Num(40), NaN)>>

CrawlIdle ==
    /\ pc = "off"
    /\ run = 0
    /\ fetches = 0
    /\ ended = <<>>
    /\ per_page = 0
    /\ num_images = 0
    /\ comb = 1
    /\ page = 1
    /\ queries = <<>>
    /\ response = 0
    /\ first_fail = 0
    /\ metadata = <<>>
    /\ csv = <<>>
    /\ files = [id \in IDs |-> "absent"]
    /\ files0 = files
    /\ row = 1
    /\ calls = <<>>

\* main() is in pd.read_csv: the rows read so far
AnalyzeInit ==
    /\ CrawlIdle
    /\ apc = "reading"
    /\ raw \in {<<>>, FiveRows, FourViews}
    /\ df = <<>>
    /\ log = <<>>
    /\ derived = <<>>

\* pd.read_csv reads one more row of the raw CSV
ReadRow ==
    /\ apc = "reading"
    /\ Len(raw) < MaxRows
    /\ \/ /\ \A i \in 1..Len(raw) : raw[i] \in LabelRows(i)
          /\ \E r \in LabelRows(Len(raw) + 1) : raw' = Append(raw, r)
       \/ /\ \A i \in 1..Len(raw) : raw[i] \in NumericRows(i)
          /\ \E r \in NumericRows(Len(raw) + 1) : raw' = Append(raw, r)
    /\ UNCHANGED <<apc, df, log, derived>>
    /\ UNCHANGED crawlVars

\* pd.read_csv returns the table and metadata = clean(metadata, log) changes
\* it in place
Clean ==
    /\ apc = "reading"
    /\ df' = clean_table(raw)
    /\ log' = log \o clean_log(raw)
    /\ apc' = "cleaned"
    /\ UNCHANGED <<raw, derived>>
    /\ UNCHANGED crawlVars

\* metadata = preprocess(metadata): the DataFrame passed is changed in place;
\* a new one is returned unless the scaler raises
Preprocess ==
    /\ apc = "cleaned"
    /\ df' = preprocess_inplace(df)
    /\ IF scaler_raises(df')
          THEN /\ apc' = "error"
               /\ derived' = <<>>
          ELSE /\ apc' = "done"
               /\ derived' = standardize(one_hot(df'))
    /\ UNCHANGED <<raw, log>>
    /\ UNCHANGED crawlVars

AnalyzeNext ==
    \/ ReadRow
    \/ Clean
    \/ Preprocess

SpecAnalyze == AnalyzeInit /\ [][AnalyzeNext]_vars

\* ------------------------------------------------------------------ claims
\* the largest n with n * b <= a
Floor(a, b) == CHOOSE n \in 0..a : n * b <= a /\ a < (n + 1) * b

\* the queries a complete crawl is to issue: combination by combination, pages
\* 1..Floor(num_images, per_page) in ascending order within each
PlannedCombs ==
    << <<"authentic", "photo">>, <<"authentic", "illustration">>,
       <<"ai", "photo">>, <<"ai", "illustration">> >>

Planned ==
    LET n == Floor(num_images, per_page)
    IN  [j \in 1..(4 * n) |->
            [content_type |-> PlannedCombs[((j - 1) \div n) + 1][1],
             image_type |-> PlannedCombs[((j - 1) \div n) + 1][2],
             page |-> ((j - 1) % n) + 1]]

Issued(q) ==
    [content_type |-> q.params.content_type,
     image_type |-> q.params.image_type,
     page |-> q.params.page]

\* C1 (as stated): after two runs of fetch_images against the same table and
\* directory that both returned, the second run made no
\* network call and left the set of files as it found it.
C1_SecondRunSilent ==
    (/\ fetches = 2
     /\ pc = "idle"
     /\ ended[run] = "returned"
     /\ ended[run - 1] = "returned")
        => (calls = <<>> /\ files = files0)

\* C1 (amended): a second or later run requests no row whose file exists when
\* the run starts and leaves every such file as it is; it requests only rows
\* whose file is absent; when the file of every row exists at its start, it
\* makes no network call at all and leaves the set of files unchanged.
C1_SecondRunResumes ==
    fetches >= 2 =>
        /\ \A id \in IDs :
              files0[id] # "absent" =>
                  /\ files[id] = files0[id]
                  /\ \A k \in 1..Len(calls) : calls[k].url # id
        /\ \A k \in 1..Len(calls) :
              \E i \in 1..Len(csv[1]) :
                  /\ csv[1][i].URL = calls[k].url
                  /\ files0[csv[1][i].ID] = "absent"
        /\ (\A i \in 1..Len(csv[1]) : files0[csv[1][i].ID] # "absent")
              => (calls = <<>> /\ files = files0)

\* a first run that downloaded something, then a second run with nothing to do
C1_Witness ==
    /\ fetches = 2
    /\ pc = "idle"
    /\ ended = <<"returned", "returned">>
    /\ Len(metadata) > 0
    /\ calls = <<>>
    /\ \A i \in 1..Len(metadata) : files[metadata[i].ID] = "complete"

\* C6: once fetch_metadata is over, the queries it issued are, for every
\* combination in product order, the pages 1..floor(num_images / per_page) in
\* ascending order and nothing else; with num_images < per_page there is no
\* query at all and the table is empty.
C6_Pagination ==
    pc = "crawled" =>
        /\ Len(queries) = 4 * Floor(num_images, per_page)
        /\ [j \in 1..Len(queries) |-> Issued(queries[j])] = Planned
        /\ num_images < per_page => (queries = <<>> /\ metadata = <<>>)

\* a crawl of two pages per combination where num_images is no multiple of
\* per_page
C6_Witness ==
    /\ pc = "crawled"
    /\ per_page = 2
    /\ num_images = 5
    /\ Len(queries) = 8

\* a step in which make_query received a non-200 response
CrawlFailStep ==
    /\ pc = "crawl"
    /\ Len(queries') = Len(queries) + 1
    /\ response' # 200

\* a step in which fetch_image received a non-200 response
FetchFailStep ==
    /\ pc = "fetch"
    /\ Len(calls') = Len(calls) + 1
    /\ calls'[Len(calls')].status_code # 200

\* C10: a non-200 response never aborts the run. In the crawl the page adds
\* no row and the crawl goes on, and a crawl with a failed page still issues
\* every planned query after it; in the fetch no file is created for the row
\* and the loop moves to the next row, and a run that returns has dealt with
\* every row: its file exists or its request failed.
C10_FailureIsolation ==
    /\ [][CrawlFailStep => (metadata' = metadata /\ pc' = "crawl")]_vars
    /\ []((pc = "crawled" /\ first_fail > 0) =>
            /\ Len(queries) = Len(Planned)
            /\ \A j \in first_fail..Len(queries) : Issued(queries[j]) = Planned[j])
    /\ [][FetchFailStep =>
            (files' = files /\ pc' = "fetch" /\ row' = row + 1)]_vars
    /\ []((run >= 1 /\ pc = "idle" /\ ended[run] = "returned") =>
            \A i \in 1..Len(metadata) :
                \/ files[metadata[i].ID] # "absent"
                \/ \E k \in 1..Len(calls) :
                      /\ calls[k].url = metadata[i].URL
                      /\ calls[k].status_code # 200)

\* a run that returned after its first page query failed and later ones
\* brought two rows, and after the download of the first row failed and that
\* of the second succeeded
C10_Witness ==
    /\ run = 1
    /\ pc = "idle"
    /\ ended = <<"returned">>
    /\ first_fail = 1
    /\ Len(metadata) = 2
    /\ calls = << [url |-> metadata[1].URL, status_code |-> 404],
                     [url |-> metadata[2].URL, status_code |-> 200] >>
    /\ files[metadata[1].ID] = "absent"
    /\ files[metadata[2].ID] = "complete"

\* the row of the raw table a row of the cleaned table comes from
RawOf(r) == raw[r.idx + 1]

\* the string p occurs in the string s
Occurs(p, s) ==
    \E off \in 0..(Len(s) - Len(p)) : \A j \in 1..Len(p) : s[off + j] = p[j]

\* the AI-indicator phrases
Phrases ==
    {<<"a", "i", " ", "g", "e", "n", "e", "r", "a", "t", "e", "d">>,
     <<"a", "i", "-", "g", "e", "n", "e", "r", "a", "t", "e", "d">>,
     <<"a", "i", "_", "g", "e", "n", "e", "r", "a", "t", "e", "d">>,
     <<"a", "i", "g", "e", "n", "e", "r", "a", "t", "e", "d">>}

HasPhrase(cell) == cell.k = "str" /\ \E p \in Phrases : Occurs(p, cell.s)

HasVectorAi(cell) == cell.k = "str" /\ Occurs(<<"v", "e", "c", "t", "o", "r", "/", "a", "i">>, cell.s)

\* C2: the table clean returns holds no ID twice, the row that survives for
\* an ID is its first occurrence in the raw table, every ID of the raw table
\* survives, and the Duplication count of the report is the number of rows
\* this step removed.
C2_Dedup ==
    apc = "cleaned" =>
        /\ \A i, j \in 1..Len(df) : i # j => df[i].ID # df[j].ID
        /\ \A i \in 1..Len(df) : \A k \in 1..Len(raw) :
              raw[k].ID = df[i].ID => k >= df[i].idx + 1
        /\ \A k \in 1..Len(raw) :
              raw[k].ID # NaN => \E i \in 1..Len(df) : df[i].ID = raw[k].ID
        /\ log[3] =
              [text |-> "Duplication",
               n |-> Cardinality({k \in 1..Len(raw) : raw[k].ID # NaN})
                     - Cardinality({raw[k].ID : k \in 1..Len(raw)} \ {NaN})]

\* two rows that share an ID and differ otherwise: the first one is kept
C2_Witness ==
    /\ apc = "cleaned"
    /\ Len(raw) = 2
    /\ raw[1].ID = raw[2].ID
    /\ raw[1].ID # NaN
    /\ raw[1].Content_Type # raw[2].Content_Type
    /\ Len(df) = 1
    /\ df[1].idx = 0
    /\ log[3] = [text |-> "Duplication", n |-> 1]

\* C3: every surviving row that was authentic and whose Tags contain one of
\* the AI-indicator phrases, or whose Image_Type contains "vector/ai", ends
\* as ai; no row that was ai ends as anything but ai.
C3_Relabel ==
    apc = "cleaned" =>
        \A i \in 1..Len(df) :
            /\ (/\ RawOf(df[i]).Content_Type = Str(authentic)
                /\ \/ HasPhrase(RawOf(df[i]).Tags)
                   \/ HasVectorAi(RawOf(df[i]).Image_Type))
                  => df[i].Content_Type = Str(ai)
            /\ RawOf(df[i]).Content_Type = Str(ai) => df[i].Content_Type = Str(ai)

\* an authentic row tagged "this is ai-generated art" that ends as ai, beside
\* an ai row without any AI tag that stays ai
C3_Witness ==
    /\ apc = "cleaned"
    /\ \E i \in 1..Len(df) :
          /\ RawOf(df[i]).Content_Type = Str(authentic)
          /\ RawOf(df[i]).Tags = Str(tags_ai_generated_art)
          /\ df[i].Content_Type = Str(ai)
    /\ \E i \in 1..Len(df) :
          /\ RawOf(df[i]).Content_Type = Str(ai)
          /\ ~HasPhrase(RawOf(df[i]).Tags)
          /\ df[i].Content_Type = Str(ai)

\* C4 (as stated): after clean every row has Content_Type authentic or ai.
C4_TwoValues ==
    apc = "cleaned" =>
        \A i \in 1..Len(df) : df[i].Content_Type \in {Str(authentic), Str(ai)}

\* C4 (amended): after clean no row has a missing Content_Type; a row whose
\* Content_Type was authentic or ai has one of these two values, and a row
\* whose Content_Type was missing has the placeholder "Unknown".
C4_NoMissing ==
    apc = "cleaned" =>
        \A i \in 1..Len(df) :
            /\ df[i].Content_Type # NaN
            /\ RawOf(df[i]).Content_Type \in {Str(authentic), Str(ai)}
                  => df[i].Content_Type \in {Str(authentic), Str(ai)}
            /\ RawOf(df[i]).Content_Type = NaN
                  => df[i].Content_Type = Str(<<"U", "n", "k", "n", "o", "w", "n">>)

\* a table with a row without Content_Type beside an authentic one
C4_Witness ==
    /\ apc = "cleaned"
    /\ \E i \in 1..Len(df) :
          /\ RawOf(df[i]).Content_Type = NaN
          /\ df[i].Content_Type = Str(<<"U", "n", "k", "n", "o", "w", "n">>)
    /\ \E i \in 1..Len(df) : df[i].Content_Type = Str(authentic)

\* C5: once preprocess has computed the ratios, every row with Views = 0 has
\* the three ratios equal to 0, whatever the numerator.
C5_RatioZero ==
    apc \in {"done", "error"} =>
        \A i \in 1..Len(df) :
            df[i].Views = Num(0) =>
                /\ df[i].Likes_Per_View = Num(0)
                /\ df[i].Downloads_Per_View = Num(0)
                /\ df[i].Comments_Per_View = Num(0)

\* the counts of the report, from the raw table and the cleaned one
MissingIDs == Cardinality({k \in 1..Len(raw) : raw[k].ID = NaN})

Duplicates ==
    Cardinality({k \in 1..Len(raw) :
        raw[k].ID # NaN /\ \E j \in 1..(k - 1) : raw[j].ID = raw[k].ID})

Relabeled ==
    Cardinality({i \in 1..Len(df) :
        RawOf(df[i]).Content_Type = Str(authentic) /\ df[i].Content_Type = Str(ai)})

\* C7: one call of clean writes one report: the counts missing-ID, duplicate
\* and mis-marked, in this order, between two rules; the table it returns has
\* as many rows as the raw table less the first two counts.
C7_Report ==
    apc = "cleaned" =>
        /\ Len(log) = 6
        /\ log[1].text = log[5].text
        /\ log[2] = [text |-> "Missing ID", n |-> MissingIDs]
        /\ log[3] = [text |-> "Duplication", n |-> Duplicates]
        /\ log[4] = [text |-> "Mis-marked Authentic Images", n |-> Relabeled]
        /\ \A k \in {1, 5, 6} : log[k].text \notin {log[2].text, log[3].text, log[4].text}
        /\ Len(df) = Len(raw) - MissingIDs - Duplicates

\* five rows, one without ID, one duplicate, one mis-marked: three rows are
\* left and the counts are 1, 1, 1
C7_Witness ==
    /\ apc = "cleaned"
    /\ Len(raw) = 5
    /\ Len(df) = 3
    /\ log[2].n = 1
    /\ log[3].n = 1
    /\ log[4].n = 1

\* the values (integers) of column col present in the raw rows that survive
Surviving(col) ==
    LET rows == SelectSeq(df, LAMBDA r : RawOf(r)[col] # NaN)
    IN  [i \in 1..Len(rows) |-> RawOf(rows[i])[col].n]

\* vs in ascending order
Ascending(vs) ==
    CHOOSE srt \in [1..Len(vs) -> {vs[i] : i \in 1..Len(vs)}] :
        /\ \A i \in 1..(Len(vs) - 1) : srt[i] <= srt[i + 1]
        /\ \A v \in {vs[i] : i \in 1..Len(vs)} :
              Cardinality({i \in 1..Len(vs) : srt[i] = v})
                  = Cardinality({i \in 1..Len(vs) : vs[i] = v})

\* twice the median of the non-empty vs
TwiceMedian(vs) ==
    LET srt == Ascending(vs)
        n == Len(vs)
    IN  IF n % 2 = 1 THEN 2 * srt[(n + 1) \div 2]
        ELSE srt[n \div 2] + srt[n \div 2 + 1]

Capitals ==
    <<"A", "B", "C", "D", "E", "F", "G", "H", "I", "J", "K", "L", "M",
      "N", "O", "P", "Q", "R", "S", "T", "U", "V", "W", "X", "Y", "Z">>

Smalls ==
    <<"a", "b", "c", "d", "e", "f", "g", "h", "i", "j", "k", "l", "m",
      "n", "o", "p", "q", "r", "s", "t", "u", "v", "w", "x", "y", "z">>

\* the string s in lower case
Lower(s) ==
    [i \in 1..Len(s) |->
        IF \E k \in 1..26 : Capitals[k] = s[i]
            THEN Smalls[CHOOSE k \in 1..26 : Capitals[k] = s[i]]
            ELSE s[i]]

HasPhraseAnyCase(cell) ==
    cell.k = "str" /\ \E p \in Phrases : Occurs(p, Lower(cell.s))

\* C9: whatever the letter case of the phrase in its Tags, a surviving row
\* that was authentic ends as ai and is counted as mis-marked.
C9_AnyCase ==
    apc = "cleaned" =>
        /\ \A i \in 1..Len(df) :
              (/\ RawOf(df[i]).Content_Type = Str(authentic)
               /\ HasPhraseAnyCase(RawOf(df[i]).Tags))
                  => df[i].Content_Type = Str(ai)
        /\ log[4].n >= Cardinality({i \in 1..Len(df) :
              /\ RawOf(df[i]).Content_Type = Str(authentic)
              /\ HasPhraseAnyCase(RawOf(df[i]).Tags)})

\* C11: preprocess returns and the table it was given is as it was before the
\* call: the same columns and the same values in every row.
C11_InputUnchanged ==
    [][(apc = "cleaned" /\ apc' = "done") => df' = df]_vars

\* C12: a file that is truncated when a run starts is truncated for the whole
\* run and no request is made for it; once such a run has returned, every row
\* of the table whose file was absent at its start has been requested.
C12_TruncatedSkipped ==
    /\ \A id \in IDs :
          files0[id] = "partial" =>
              /\ files[id] = "partial"
              /\ \A k \in 1..Len(calls) : calls[k].url # id
    /\ (/\ pc = "idle"
        /\ Len(ended) = run
        /\ run > 0
        /\ ended[run] = "returned"
        /\ \E id \in IDs : files0[id] = "partial")
          => \A i \in 1..Len(csv[1]) :
                files0[csv[1][i].ID] = "absent" =>
                    \E k \in 1..Len(calls) : calls[k].url = csv[1][i].URL

\* a run killed while it wrote the file of one row, then a run that returned:
\* it left the truncated file alone and downloaded the file of the other row
C12_Witness ==
    /\ pc = "idle"
    /\ ended = <<"killed", "returned">>
    /\ Len(calls) = 1
    /\ \E i, j \in 1..Len(csv[1]) :
          /\ files0[csv[1][i].ID] = "partial"
          /\ files[csv[1][i].ID] = "partial"
          /\ files0[csv[1][j].ID] = "absent"
          /\ files[csv[1][j].ID] = "complete"
          /\ calls[1] = [url |-> csv[1][j].URL, status_code |-> 200]

====
